---- MODULE Spec2Model ----
(***************************************************************************)
(* Model of platform/posix/btstack_uart_posix.c: the block transfer        *)
(* engine, the SLIP frame encode/decode pipelines, the readiness           *)
(* multiplexer and the session shell.                                      *)
(*                                                                         *)
(* The whole program state is one record `s`: the C file's statics (named  *)
(* as in the source), the run loop's view of transport_data_source, the    *)
(* SLIP codec's statics, the serial device, and observation fields h_..    *)
(* that record what the caller has seen.  Every C function is an operator  *)
(* from record to record, so a handler that calls another function is the  *)
(* composition of the operators.                                           *)
(*                                                                         *)
(* Every completion callback in the source is a tail call: no statement    *)
(* of the driver runs after block_sent(), block_received(), frame_sent()   *)
(* or frame_received() returns.  A request issued from inside a callback   *)
(* therefore acts on exactly the state the handler leaves behind, and is   *)
(* modelled as the request action taken right after the handler's action.  *)
(***************************************************************************)
EXTENDS Integers, Sequences, FiniteSets, TLC

VARIABLES s

vars == <<s>>

-----------------------------------------------------------------------------
(* Bounds of the model *)

\* longest block handed to send_block / receive_block
MaxBlockLen == 2
\* bytes the serial device holds between its write side and its read side
FifoSize == 6

\* byte streams the peer sends
MaxPeerSends == 2

(* Program constants *)

SLIP_TX_CHUNK_LEN == 128
SLIP_RECEIVE_BUFFER_SIZE == 128

\* SLIP delimiter and escape bytes
BTSTACK_SLIP_SOF == 192
SLIP_ESC == 219
SLIP_ESC_SOF == 220
SLIP_ESC_ESC == 221

\* descriptor returned by a successful open()
OpenFd == 3

\* frames a caller sends: empty, plain, with bytes that need escaping
Frames ==
    { <<>>, <<1>>, <<192, 219>>, <<1, 2, 3>> }

\* capacity of the buffer a caller hands to receive_frame
FrameBufferLen == 3

\* chunk capacities the driver is built with: the source's value, and the
\* small ones with which a frame spans several chunks
ChunkLens == {1, 2, SLIP_TX_CHUNK_LEN}

Min(a, b) == IF a < b THEN a ELSE b

Drop(q, n) == SubSeq(q, n + 1, Len(q))

Take(q, n) == SubSeq(q, 1, n)

\* block of n bytes a caller sends: 1, 2, ..., n
BlockOf(n) == [i \in 1 .. n |-> i]

-----------------------------------------------------------------------------
(* Run loop: the data source's registration and its two interest flags *)

btstack_run_loop_enable_data_source_callbacks(st, type) ==
    IF type = "READ" THEN [st EXCEPT !.ds_read = TRUE]
    ELSE [st EXCEPT !.ds_write = TRUE]

btstack_run_loop_disable_data_source_callbacks(st, type) ==
    IF type = "READ" THEN [st EXCEPT !.ds_read = FALSE]
    ELSE [st EXCEPT !.ds_write = FALSE]

btstack_run_loop_add_data_source(st) == [st EXCEPT !.registered = TRUE]

btstack_run_loop_remove_data_source(st) == [st EXCEPT !.registered = FALSE]

-----------------------------------------------------------------------------
(* Serial device: what write() and read() on the descriptor do *)

\* results write(fd, data, count) can return: an error, nothing, or a
\* positive part of count that the device has room for
WriteResults(st, count) == {-1, 0} \cup (1 .. Min(count, FifoSize - Len(st.wire)))

\* results read(fd, buf, count) can return
ReadResults(st, count) == {-1, 0} \cup (1 .. Min(count, Len(st.wire)))

\* write(ds->fd, data, count) returning n; bytes are those at the cursor
posix_write(st, bytes, n) ==
    [st EXCEPT !.wire = IF n > 0 THEN @ \o Take(bytes, n) ELSE @,
               !.h_wr_total = IF n > 0 THEN @ + n ELSE @,
               !.h_wr_partials = IF n > 0 /\ st.h_wr_kind = "block" THEN @ + 1 ELSE @,
               !.h_wr_zero = @ \/ (n = 0),
               !.h_wr_neg = @ \/ (n < 0)]

\* read(ds->fd, buf, count) returning n
posix_read(st, n) ==
    [st EXCEPT !.wire = IF n > 0 THEN Drop(@, n) ELSE @,
               !.h_rd_total = IF n > 0 /\ st.h_rd_kind = "block" THEN @ + n ELSE @,
               !.h_rd_err = @ \/ (n <= 0),
               !.h_phys_reads = Min(@ + 1, 2)]

-----------------------------------------------------------------------------
(* The caller's completion callbacks: what the caller observes *)

\* (*block_sent)() / (*frame_sent)()
on_sent(st, name) ==
    [st EXCEPT !.h_wr_pending = FALSE,
               !.h_wr_cb_name = name,
               !.h_wr_cb = Min(@ + 1, 2),
               !.h_wr_cb_armed = st.ds_write]

\* (*block_received)()
on_block_received(st) ==
    [st EXCEPT !.h_rd_pending = FALSE,
               !.h_rd_cb = Min(@ + 1, 2),
               !.h_rd_cb_armed = st.ds_read]

\* (*frame_received)(frame_size): the frame is in the caller's buffer
on_frame_received(st, frame_size) ==
    [st EXCEPT !.h_rd_pending = FALSE,
               !.h_rd_cb = Min(@ + 1, 2),
               !.h_rd_cb_armed = st.ds_read,
               !.h_rx_size = frame_size,
               !.h_rx_frames = Min(@ + 1, 2)]

-----------------------------------------------------------------------------
(* SLIP codec (btstack_slip): a frame travels as SOF, its bytes with SOF   *)
(* and ESC escaped, SOF.  The driver uses it one byte at a time.           *)

\* state the encoder enters when it has sent a byte and `data` is left
encoder_next_state(data) == IF Len(data) = 0 THEN "SEND_EOF" ELSE "DEFAULT"

btstack_slip_encoder_start(st, frame) ==
    [st EXCEPT !.encoder_data = frame, !.encoder_state = "SEND_SOF"]

btstack_slip_encoder_has_data(st) == st.encoder_state # "IDLE"

\* the byte btstack_slip_encoder_get_byte returns
encoder_byte(st) ==
    CASE st.encoder_state = "SEND_SOF" -> BTSTACK_SLIP_SOF
      [] st.encoder_state = "SEND_EOF" -> BTSTACK_SLIP_SOF
      [] st.encoder_state = "SEND_DC" -> SLIP_ESC_SOF
      [] st.encoder_state = "SEND_DD" -> SLIP_ESC_ESC
      [] OTHER -> IF Head(st.encoder_data) \in {BTSTACK_SLIP_SOF, SLIP_ESC}
                  THEN SLIP_ESC ELSE Head(st.encoder_data)

\* the encoder after btstack_slip_encoder_get_byte
btstack_slip_encoder_get_byte(st) ==
    CASE st.encoder_state = "SEND_EOF" -> [st EXCEPT !.encoder_state = "IDLE"]
      [] st.encoder_state \in {"SEND_SOF", "SEND_DC", "SEND_DD"} ->
            [st EXCEPT !.encoder_state = encoder_next_state(st.encoder_data)]
      [] OTHER ->
            LET b == Head(st.encoder_data)
                rest == Tail(st.encoder_data)
            IN  [st EXCEPT !.encoder_data = rest,
                           !.encoder_state =
                               IF b = BTSTACK_SLIP_SOF THEN "SEND_DC"
                               ELSE IF b = SLIP_ESC THEN "SEND_DD"
                               ELSE encoder_next_state(rest)]

btstack_slip_decoder_init(st, len) ==
    [st EXCEPT !.decoder_state = "UNKNOWN", !.decoder_buffer = <<>>,
               !.decoder_max_size = len]

\* a decoded byte goes to the caller's buffer; a frame longer than the
\* buffer is dropped
btstack_slip_decoder_store_byte(st, b) ==
    IF Len(st.decoder_buffer) >= st.decoder_max_size
    THEN [st EXCEPT !.decoder_state = "UNKNOWN", !.decoder_buffer = <<>>]
    ELSE [st EXCEPT !.decoder_state = "ACTIVE", !.decoder_buffer = Append(@, b)]

btstack_slip_decoder_process(st, input) ==
    CASE st.decoder_state = "UNKNOWN" ->
            IF input = BTSTACK_SLIP_SOF
            THEN [st EXCEPT !.decoder_state = "X_C0", !.decoder_buffer = <<>>]
            ELSE st
      [] st.decoder_state = "COMPLETE" -> [st EXCEPT !.decoder_state = "UNKNOWN"]
      [] st.decoder_state = "X_DB" ->
            IF input = SLIP_ESC_SOF THEN btstack_slip_decoder_store_byte(st, BTSTACK_SLIP_SOF)
            ELSE IF input = SLIP_ESC_ESC THEN btstack_slip_decoder_store_byte(st, SLIP_ESC)
            ELSE [st EXCEPT !.decoder_state = "UNKNOWN", !.decoder_buffer = <<>>]
      [] OTHER -> \* X_C0 (after SOF) and ACTIVE (inside a frame)
            IF input = BTSTACK_SLIP_SOF
            THEN IF Len(st.decoder_buffer) > 0
                 THEN [st EXCEPT !.decoder_state = "COMPLETE"]
                 ELSE [st EXCEPT !.decoder_state = "X_C0"]
            ELSE IF input = SLIP_ESC THEN [st EXCEPT !.decoder_state = "X_DB"]
            ELSE btstack_slip_decoder_store_byte(st, input)

btstack_slip_decoder_frame_size(st) ==
    IF st.decoder_state = "COMPLETE" THEN Len(st.decoder_buffer) ELSE 0

\* the byte stream of a frame, for stating what a receiver must get
RECURSIVE SlipEscape(_)
SlipEscape(frame) ==
    IF Len(frame) = 0 THEN <<>>
    ELSE (IF Head(frame) = BTSTACK_SLIP_SOF THEN <<SLIP_ESC, SLIP_ESC_SOF>>
          ELSE IF Head(frame) = SLIP_ESC THEN <<SLIP_ESC, SLIP_ESC_ESC>>
          ELSE <<Head(frame)>>) \o SlipEscape(Tail(frame))

SlipStream(frame) == <<BTSTACK_SLIP_SOF>> \o SlipEscape(frame) \o <<BTSTACK_SLIP_SOF>>

-----------------------------------------------------------------------------
(* Block transfer engine *)

\* mutant: the callback is invoked with write interest still armed
Mut_block_write_done(st) == on_sent(st, "block_sent")

\* lines 116-121: the last byte is out: disarm write interest, notify
block_write_done(st) ==
    on_sent(btstack_run_loop_disable_data_source_callbacks(st, "WRITE"), "block_sent")

\* lines 108-109: the cursor moves over the bytes written
block_write_advance(st, bytes_written) ==
    [st EXCEPT !.btstack_uart_block_write_bytes_data = Drop(@, bytes_written),
               !.btstack_uart_block_write_bytes_len = @ - bytes_written]

\* mutant: the check for a negative result is missing, and the remaining
\* length is reduced by the negative result
Mut_block_posix_process_write(st, bytes_written) ==
    IF st.btstack_uart_block_write_bytes_len = 0 THEN st
    ELSE
      LET w == posix_write(st, st.btstack_uart_block_write_bytes_data, bytes_written)
          a == IF bytes_written < 0
               THEN [w EXCEPT !.btstack_uart_block_write_bytes_len = @ - bytes_written]
               ELSE block_write_advance(w, bytes_written)
      IN  IF bytes_written = 0 THEN w
          ELSE IF a.btstack_uart_block_write_bytes_len # 0
          THEN btstack_run_loop_enable_data_source_callbacks(a, "WRITE")
          ELSE block_write_done(a)

\* mutant: no early return when nothing is left to write
Mut_block_posix_process_write_go(st, bytes_written) ==
    LET w == posix_write(st, st.btstack_uart_block_write_bytes_data, bytes_written)
        a == block_write_advance(w, bytes_written)
    IN  IF bytes_written = 0 THEN w
        ELSE IF bytes_written < 0
        THEN btstack_run_loop_enable_data_source_callbacks(w, "WRITE")
        ELSE IF a.btstack_uart_block_write_bytes_len # 0
        THEN btstack_run_loop_enable_data_source_callbacks(a, "WRITE")
        ELSE block_write_done(a)

\* mutant: a write of zero bytes disarms write interest
Mut_block_posix_process_write_zero(st, bytes_written) ==
    IF st.btstack_uart_block_write_bytes_len = 0 THEN st
    ELSE
      LET w == posix_write(st, st.btstack_uart_block_write_bytes_data, bytes_written)
          a == block_write_advance(w, bytes_written)
      IN  IF bytes_written = 0
          THEN btstack_run_loop_disable_data_source_callbacks(w, "WRITE")
          ELSE IF bytes_written < 0
          THEN btstack_run_loop_enable_data_source_callbacks(w, "WRITE")
          ELSE IF a.btstack_uart_block_write_bytes_len # 0
          THEN btstack_run_loop_enable_data_source_callbacks(a, "WRITE")
          ELSE block_write_done(a)

\* bytes_written is what write() returns
btstack_uart_block_posix_process_write(st, bytes_written) ==
    IF st.btstack_uart_block_write_bytes_len = 0 THEN st
    ELSE
      LET w == posix_write(st, st.btstack_uart_block_write_bytes_data, bytes_written)
          a == block_write_advance(w, bytes_written)
      IN  IF bytes_written = 0 THEN w
          ELSE IF bytes_written < 0
          THEN btstack_run_loop_enable_data_source_callbacks(w, "WRITE")
          ELSE IF a.btstack_uart_block_write_bytes_len # 0
          THEN btstack_run_loop_enable_data_source_callbacks(a, "WRITE")
          ELSE block_write_done(a)

\* mutant: the callback is invoked with read interest still armed
Mut_block_read_done(st) == on_block_received(st)

\* lines 153-157: the block is full: disarm read interest, notify
block_read_done(st) ==
    on_block_received(btstack_run_loop_disable_data_source_callbacks(st, "READ"))

\* lines 126-129: a readiness event with no read pending disarms read
\* interest and goes on to the read
block_read_entry(st) ==
    IF st.btstack_uart_block_read_bytes_len = 0
    THEN btstack_run_loop_disable_data_source_callbacks(st, "READ")
    ELSE st

\* lines 149-150, with the bytes read() stored at the cursor
block_read_advance(st, bytes_read) ==
    [st EXCEPT !.btstack_uart_block_read_bytes_len = @ - bytes_read,
               !.btstack_uart_block_read_bytes_data = @ + bytes_read]

\* bytes_read is what read() returns
btstack_uart_block_posix_process_read(st, bytes_read) ==
    LET e == block_read_entry(st)
        r == posix_read(e, bytes_read)
        a == block_read_advance(r, bytes_read)
    IN  IF bytes_read = 0 THEN r
        ELSE IF bytes_read < 0 THEN r
        ELSE IF a.btstack_uart_block_read_bytes_len > 0 THEN a
        ELSE block_read_done(a)

btstack_uart_posix_send_block(st, data, size) ==
    btstack_run_loop_enable_data_source_callbacks(
        [st EXCEPT !.btstack_uart_block_write_bytes_data = data,
                   !.btstack_uart_block_write_bytes_len = size],
        "WRITE")

btstack_uart_posix_receive_block(st, len) ==
    btstack_run_loop_enable_data_source_callbacks(
        [st EXCEPT !.btstack_uart_block_read_bytes_data = 0,
                   !.btstack_uart_block_read_bytes_len = len],
        "READ")

-----------------------------------------------------------------------------
(* Frame encode pipeline *)

\* lines 521-524: pull encoder bytes into the outgoing buffer from pos on
\* mutant: the chunk is not bounded by the chunk capacity
RECURSIVE Mut_encode_chunk(_, _)
Mut_encode_chunk(st, buffer) ==
    IF btstack_slip_encoder_has_data(st)
    THEN Mut_encode_chunk(btstack_slip_encoder_get_byte(st),
                          Append(buffer, encoder_byte(st)))
    ELSE [st |-> st, btstack_uart_slip_outgoing_buffer |-> buffer]

\* mutant: a byte pulled from the encoder when the buffer is full is lost
RECURSIVE Mut_encode_chunk_full(_, _)
Mut_encode_chunk_full(st, buffer) ==
    IF btstack_slip_encoder_has_data(st)
    THEN IF Len(buffer) < st.chunk_len
         THEN Mut_encode_chunk_full(btstack_slip_encoder_get_byte(st),
                                    Append(buffer, encoder_byte(st)))
         ELSE [st |-> btstack_slip_encoder_get_byte(st),
               btstack_uart_slip_outgoing_buffer |-> buffer]
    ELSE [st |-> st, btstack_uart_slip_outgoing_buffer |-> buffer]

\* the result is the encoder's state and the buffer's first pos bytes
RECURSIVE encode_chunk(_, _)
encode_chunk(st, buffer) ==
    IF btstack_slip_encoder_has_data(st) /\ Len(buffer) < st.chunk_len
    THEN encode_chunk(btstack_slip_encoder_get_byte(st), Append(buffer, encoder_byte(st)))
    ELSE [st |-> st, btstack_uart_slip_outgoing_buffer |-> buffer]

\* lines 526-530: setup async write and start sending
slip_chunk_send(st, buffer, pos) ==
    btstack_run_loop_enable_data_source_callbacks(
        [st EXCEPT !.btstack_uart_slip_write_bytes_data = buffer,
                   !.btstack_uart_slip_write_bytes_len = pos,
                   !.h_chunks = @ + 1,
                   !.h_refill_len = st.btstack_uart_slip_write_bytes_len,
                   !.h_refill_partial = @ \/ st.h_chunk_partial,
                   !.h_submitted = @ \o buffer,
                   !.h_chunk_len = pos,
                   !.h_chunk_partial = FALSE],
        "WRITE")

btstack_uart_slip_posix_encode_chunk_and_send(st) ==
    LET c == encode_chunk(st, <<>>)
    IN  slip_chunk_send(c.st, c.btstack_uart_slip_outgoing_buffer,
                        Len(c.btstack_uart_slip_outgoing_buffer))

\* lines 540-546: the frame is out: the send is over, notify
frame_write_done(st) ==
    on_sent([st EXCEPT !.btstack_uart_slip_write_active = 0], "frame_sent")

\* mutant: the frame is reported sent with the first chunk
Mut_slip_posix_block_sent(st) == frame_write_done(st)

btstack_uart_slip_posix_block_sent(st) ==
    IF btstack_slip_encoder_has_data(st)
    THEN btstack_uart_slip_posix_encode_chunk_and_send(st)
    ELSE frame_write_done(st)

\* mutant: the remaining length shrinks but the cursor stays
Mut_slip_write_advance(st, bytes_written) ==
    [st EXCEPT !.btstack_uart_slip_write_bytes_len = @ - bytes_written]

\* lines 444-445
slip_write_advance(st, bytes_written) ==
    [st EXCEPT !.btstack_uart_slip_write_bytes_data = Drop(@, bytes_written),
               !.btstack_uart_slip_write_bytes_len = @ - bytes_written,
               !.h_chunk_partial = @ \/ (st.btstack_uart_slip_write_bytes_len > bytes_written)]

\* lines 452-455: the chunk is out: disarm write interest, go on
slip_chunk_done(st) ==
    btstack_uart_slip_posix_block_sent(
        btstack_run_loop_disable_data_source_callbacks(st, "WRITE"))

\* mutant: the chunk counts as written after its first positive write
Mut_slip_posix_process_write(st, bytes_written) ==
    IF st.btstack_uart_slip_write_bytes_len = 0 THEN st
    ELSE
      LET w == posix_write(st, st.btstack_uart_slip_write_bytes_data, bytes_written)
          a == slip_write_advance(w, bytes_written)
      IN  IF bytes_written < 0
          THEN btstack_run_loop_enable_data_source_callbacks(w, "WRITE")
          ELSE slip_chunk_done(a)

btstack_uart_slip_posix_process_write(st, bytes_written) ==
    IF st.btstack_uart_slip_write_bytes_len = 0 THEN st
    ELSE
      LET w == posix_write(st, st.btstack_uart_slip_write_bytes_data, bytes_written)
          a == slip_write_advance(w, bytes_written)
      IN  IF bytes_written < 0
          THEN btstack_run_loop_enable_data_source_callbacks(w, "WRITE")
          ELSE IF a.btstack_uart_slip_write_bytes_len # 0
          THEN btstack_run_loop_enable_data_source_callbacks(a, "WRITE")
          ELSE slip_chunk_done(a)

btstack_uart_slip_posix_send_frame(st, frame) ==
    btstack_uart_slip_posix_encode_chunk_and_send(
        btstack_slip_encoder_start(
            [st EXCEPT !.btstack_uart_slip_write_active = 1], frame))

-----------------------------------------------------------------------------
(* Frame decode pipeline *)

\* lines 462-466: feed buffered bytes to the decoder until a frame is
\* complete; the result is the state and the local frame_size
RECURSIVE process_buffer_loop(_, _)
process_buffer_loop(st, frame_size) ==
    IF st.btstack_uart_slip_receive_pos < st.btstack_uart_slip_receive_len
       /\ frame_size = 0
    THEN LET b == st.btstack_uart_slip_receive_buffer[st.btstack_uart_slip_receive_pos + 1]
             d == btstack_slip_decoder_process(
                      [st EXCEPT !.btstack_uart_slip_receive_pos = @ + 1], b)
         IN  process_buffer_loop(d, btstack_slip_decoder_frame_size(d))
    ELSE [st |-> st, frame_size |-> frame_size]

\* mutant: the buffer is never reset
Mut_process_buffer_keep(st) == st

\* mutant: the buffer is reset whether or not it is fully processed
Mut_process_buffer_reset(st) ==
    [st EXCEPT !.btstack_uart_slip_receive_len = 0,
               !.btstack_uart_slip_receive_pos = 0,
               !.btstack_uart_slip_receive_buffer = <<>>]

\* lines 468-472: reset buffer if fully processed.  The bytes of the buffer
\* outside [0, len) are never read again: the model keeps none of them
process_buffer_reset(st) ==
    IF st.btstack_uart_slip_receive_pos = st.btstack_uart_slip_receive_len
    THEN [st EXCEPT !.btstack_uart_slip_receive_len = 0,
                    !.btstack_uart_slip_receive_pos = 0,
                    !.btstack_uart_slip_receive_buffer = <<>>]
    ELSE st

\* lines 474-487: deliver frame if frame complete
process_buffer_deliver(st, frame_size) ==
    IF frame_size # 0
    THEN on_frame_received([st EXCEPT !.btstack_uart_slip_receive_active = 0], frame_size)
    ELSE st

\* the result is the state and the returned frame size
btstack_uart_slip_posix_process_buffer(st) ==
    LET l == process_buffer_loop(st, 0)
    IN  [st |-> process_buffer_deliver(process_buffer_reset(l.st), l.frame_size),
         frame_size |-> l.frame_size]

\* lines 511-512: the buffer holds the bytes just read
slip_read_store(st, bytes, bytes_read) ==
    [st EXCEPT !.btstack_uart_slip_receive_buffer = bytes,
               !.btstack_uart_slip_receive_pos = 0,
               !.btstack_uart_slip_receive_len = bytes_read,
               !.h_overwritten = @ \/ (st.btstack_uart_slip_receive_pos
                                          < st.btstack_uart_slip_receive_len)]

btstack_uart_slip_posix_process_read(st, bytes_read) ==
    LET t == [st EXCEPT !.btstack_uart_slip_receive_track_start = 0]
        bytes == Take(t.wire, IF bytes_read > 0 THEN bytes_read ELSE 0)
        r == posix_read(t, bytes_read)
    IN  IF bytes_read < 0 THEN r
        ELSE btstack_uart_slip_posix_process_buffer(
                 slip_read_store(r, bytes, bytes_read)).st

\* mutant: the bytes of an earlier read are not fed to the decoder
Mut_slip_posix_receive_frame_arm(st, len) ==
    btstack_run_loop_enable_data_source_callbacks(
        btstack_slip_decoder_init(
            [st EXCEPT !.btstack_uart_slip_receive_active = 1,
                       !.btstack_uart_slip_receive_track_start = 1], len),
        "READ")

\* mutant: read interest is armed whether or not a frame was delivered
Mut_slip_posix_receive_frame(st, len) ==
    LET i == btstack_slip_decoder_init(
                 [st EXCEPT !.btstack_uart_slip_receive_active = 1,
                            !.btstack_uart_slip_receive_track_start = 1], len)
        pb == btstack_uart_slip_posix_process_buffer(i)
    IN  IF i.btstack_uart_slip_receive_len # 0
        THEN btstack_run_loop_enable_data_source_callbacks(pb.st, "READ")
        ELSE btstack_run_loop_enable_data_source_callbacks(i, "READ")

btstack_uart_slip_posix_receive_frame(st, len) ==
    LET i == btstack_slip_decoder_init(
                 [st EXCEPT !.btstack_uart_slip_receive_active = 1,
                            !.btstack_uart_slip_receive_track_start = 1], len)
        pb == btstack_uart_slip_posix_process_buffer(i)
    IN  IF i.btstack_uart_slip_receive_len # 0
        THEN IF pb.frame_size # 0 THEN pb.st
             ELSE btstack_run_loop_enable_data_source_callbacks(
                      [pb.st EXCEPT !.h_drained = TRUE], "READ")
        ELSE btstack_run_loop_enable_data_source_callbacks(i, "READ")

-----------------------------------------------------------------------------
(* Readiness multiplexer *)

\* mutant: events are dispatched whatever the descriptor
Mut_hci_uart_posix_process(st, callback_type, result) ==
    IF callback_type = "READ"
    THEN IF st.btstack_uart_slip_receive_active # 0
         THEN btstack_uart_slip_posix_process_read(st, result)
         ELSE btstack_uart_block_posix_process_read(st, result)
    ELSE IF st.btstack_uart_slip_write_active # 0
         THEN btstack_uart_slip_posix_process_write(st, result)
         ELSE btstack_uart_block_posix_process_write(st, result)

\* result is what read() or write() returns if the engine gets to call it
hci_uart_posix_process(st, callback_type, result) ==
    IF st.fd < 0 THEN st
    ELSE IF callback_type = "READ"
    THEN IF st.btstack_uart_slip_receive_active # 0
         THEN btstack_uart_slip_posix_process_read(st, result)
         ELSE btstack_uart_block_posix_process_read(st, result)
    ELSE IF st.btstack_uart_slip_write_active # 0
         THEN btstack_uart_slip_posix_process_write(st, result)
         ELSE btstack_uart_block_posix_process_write(st, result)

\* the count the routed engine passes to read()
ReadCount(st) ==
    IF st.btstack_uart_slip_receive_active # 0 THEN SLIP_RECEIVE_BUFFER_SIZE
    ELSE st.btstack_uart_block_read_bytes_len

\* the count the routed engine passes to write(); 0 when it returns early
WriteCount(st) ==
    IF st.btstack_uart_slip_write_active # 0 THEN st.btstack_uart_slip_write_bytes_len
    ELSE st.btstack_uart_block_write_bytes_len

-----------------------------------------------------------------------------
(* Session shell *)

\* lines 297-343 by outcome: "fails" is open() or the attribute setup
\* failing (nothing is stored), "baudrate_fails" is line 336 failing (the
\* descriptor is stored but not registered), "ok" registers it
posix_open_outcome(st, outcome) ==
    IF outcome = "fails" THEN st
    ELSE IF outcome = "baudrate_fails"
    THEN [st EXCEPT !.fd = OpenFd, !.fd_open = TRUE]
    ELSE btstack_run_loop_add_data_source([st EXCEPT !.fd = OpenFd, !.fd_open = TRUE])

\* open() succeeds: the descriptor is stored and registered
btstack_uart_posix_open(st) == posix_open_outcome(st, "ok")

\* mutant: close(-1) releases a descriptor too
Mut_posix_close(st) ==
    [st EXCEPT !.fd_open = IF st.fd = OpenFd THEN FALSE ELSE @,
               !.h_foreign_close = @ \/ (st.fd # OpenFd)]

\* line 357: close(transport_data_source.fd); close(-1) releases nothing,
\* descriptor 0 is one the session never opened
posix_close(st) ==
    [st EXCEPT !.fd_open = IF st.fd = OpenFd THEN FALSE ELSE @,
               !.h_foreign_close = @ \/ (st.fd >= 0 /\ st.fd # OpenFd)]

\* mutant: the descriptor is released before it is unregistered
Mut_close_steps(st) ==
    LET a == posix_close(st)
        b == btstack_run_loop_remove_data_source(a)
        c == [b EXCEPT !.fd = -1]
    IN  <<a, b, c>>

\* lines 354-358: the state after each of the three statements of close
close_steps(st) ==
    LET a == btstack_run_loop_remove_data_source(st)
        b == posix_close(a)
        c == [b EXCEPT !.fd = -1]
    IN  <<a, b, c>>

btstack_uart_posix_close_new(st) == close_steps(st)[3]

-----------------------------------------------------------------------------
(* The state machine *)

\* the statics are zero, no descriptor is registered, the device is empty
Init ==
    \E c \in ChunkLens :
        s = [ chunk_len |-> c,
              fd |-> 0,
              fd_open |-> FALSE,
              registered |-> FALSE,
              ds_read |-> FALSE,
              ds_write |-> FALSE,
              btstack_uart_block_write_bytes_len |-> 0,
              btstack_uart_block_write_bytes_data |-> <<>>,
              btstack_uart_block_read_bytes_len |-> 0,
              btstack_uart_block_read_bytes_data |-> 0,
              btstack_uart_slip_write_bytes_len |-> 0,
              btstack_uart_slip_write_bytes_data |-> <<>>,
              btstack_uart_slip_write_active |-> 0,
              btstack_uart_slip_receive_buffer |-> <<>>,
              btstack_uart_slip_receive_pos |-> 0,
              btstack_uart_slip_receive_len |-> 0,
              btstack_uart_slip_receive_track_start |-> 0,
              btstack_uart_slip_receive_active |-> 0,
              encoder_state |-> "IDLE",
              encoder_data |-> <<>>,
              decoder_state |-> "UNKNOWN",
              decoder_buffer |-> <<>>,
              decoder_max_size |-> 0,
              wire |-> <<>>,
              h_wr_kind |-> "none", h_wr_pending |-> FALSE, h_wr_size |-> 0,
              h_wr_total |-> 0, h_wr_partials |-> 0, h_wr_cb |-> 0, h_wr_cb_name |-> "none",
              h_wr_cb_armed |-> FALSE, h_wr_zero |-> FALSE, h_wr_neg |-> FALSE,
              h_frame |-> <<>>,
              h_chunks |-> 0, h_refill_len |-> 0,
              h_rd_kind |-> "none", h_rd_pending |-> FALSE, h_rd_size |-> 0,
              h_rd_total |-> 0, h_rd_cb |-> 0, h_rd_cb_armed |-> FALSE,
              h_rd_err |-> FALSE,
              h_phys_reads |-> 0, h_rx_size |-> 0, h_rx_frames |-> 0,
              h_overwritten |-> FALSE, h_peer_sends |-> 0,
              h_chunk_partial |-> FALSE, h_refill_partial |-> FALSE,
              h_drained |-> FALSE, h_wr_event |-> FALSE,
              h_submitted |-> <<>>, h_chunk_len |-> 0,
              h_wr_cancelled |-> FALSE,
              h_foreign_close |-> FALSE, h_reclosed |-> FALSE, h_stale |-> FALSE ]

\* the caller issues a send request
BeginSend(st, kind, size, frame) ==
    [st EXCEPT
        !.h_wr_kind = kind, !.h_wr_pending = TRUE, !.h_wr_size = size,
        !.h_wr_total = 0, !.h_wr_partials = 0, !.h_wr_cb = 0, !.h_wr_cb_name = "none",
        !.h_wr_cb_armed = FALSE, !.h_wr_zero = FALSE, !.h_wr_neg = FALSE,
        !.h_frame = frame,
        !.h_chunks = 0, !.h_refill_len = 0,
        !.h_chunk_partial = FALSE, !.h_refill_partial = FALSE,
        !.h_submitted = <<>>, !.h_chunk_len = 0, !.h_wr_event = FALSE]

\* the caller issues a receive request
BeginReceive(st, kind, size) ==
    [st EXCEPT
        !.h_rd_kind = kind, !.h_rd_pending = TRUE, !.h_rd_size = size,
        !.h_rd_total = 0, !.h_rd_cb = 0, !.h_rd_cb_armed = FALSE,
        !.h_rd_err = FALSE, !.h_phys_reads = 0, !.h_drained = FALSE]

\* the caller may send: the session is open and no send is outstanding
MaySend == s.registered /\ ~s.h_wr_pending

\* the caller may receive: the session is open and no receive is outstanding
MayReceive == s.registered /\ ~s.h_rd_pending

Open ==
    /\ ~s.registered
    /\ s' = btstack_uart_posix_open(s)

Close ==
    /\ s.registered
    /\ s' = btstack_uart_posix_close_new(s)

SendBlock ==
    /\ MaySend
    /\ \E size \in 0 .. MaxBlockLen :
          s' = btstack_uart_posix_send_block(
                   BeginSend(s, "block", size, <<>>), BlockOf(size), size)

ReceiveBlock ==
    /\ MayReceive
    /\ \E len \in 0 .. MaxBlockLen :
          s' = btstack_uart_posix_receive_block(
                   BeginReceive(s, "block", len), len)

SendFrame ==
    /\ MaySend
    /\ \E frame \in Frames :
          s' = btstack_uart_slip_posix_send_frame(
                   BeginSend(s, "frame", Len(frame), frame), frame)

ReceiveFrame ==
    /\ MayReceive
    /\ s' = btstack_uart_slip_posix_receive_frame(
                BeginReceive(s, "frame", FrameBufferLen), FrameBufferLen)

\* the run loop reports the registered descriptor readable
ReadReady ==
    /\ s.registered /\ s.ds_read
    /\ \E result \in ReadResults(s, ReadCount(s)) :
          s' = hci_uart_posix_process(s, "READ", result)

\* the run loop reports the registered descriptor writable
WriteReady ==
    /\ s.registered /\ s.ds_write
    /\ \E result \in WriteResults(s, WriteCount(s)) :
          s' = [hci_uart_posix_process(s, "WRITE", result) EXCEPT !.h_wr_event = TRUE]

\* the peer takes the bytes the device holds
DeviceDrains ==
    /\ Len(s.wire) > 0
    /\ s' = [s EXCEPT !.wire = <<>>]

\* the peer sends a frame's byte stream, or one plain byte
PeerSends ==
    /\ s.h_peer_sends < MaxPeerSends
    /\ \E stream \in {SlipStream(f) : f \in Frames} \cup {<<1>>} :
          /\ Len(s.wire) + Len(stream) <= FifoSize
          /\ s' = [s EXCEPT !.wire = @ \o stream, !.h_peer_sends = @ + 1]

\* the first send request of a session's caller is a frame
SendFirstFrame ==
    /\ s.h_wr_kind = "none"
    /\ SendFrame

\* the write direction, against a peer that takes what is written
NextTx ==
    \/ Open
    \/ Close
    \/ SendBlock
    \/ SendFrame
    \/ WriteReady
    \/ DeviceDrains

\* the read direction, against a peer that sends
NextRx ==
    \/ Open
    \/ Close
    \/ ReceiveBlock
    \/ ReceiveFrame
    \/ ReadReady
    \/ PeerSends

\* one frame sent and frames received over a link that loops back
NextLoop ==
    \/ Open
    \/ Close
    \/ SendFirstFrame
    \/ ReceiveFrame
    \/ ReadReady
    \/ WriteReady

Next == NextTx \/ NextRx

Spec == Init /\ [][Next]_vars

SpecTx == Init /\ [][NextTx]_vars

\* the read direction does not depend on the chunk capacity
InitRx == Init /\ s.chunk_len = SLIP_TX_CHUNK_LEN

SpecRx == InitRx /\ [][NextRx]_vars

SpecLoop == Init /\ [][NextLoop]_vars

\* closing the session is the only way to cancel: the caller holds no
\* request outstanding after it
CancelRequests(st) == [st EXCEPT !.h_wr_pending = FALSE, !.h_rd_pending = FALSE]

OpenOutcomes == {"fails", "baudrate_fails", "ok"}

\* open on a session that is not registered, with every outcome
OpenSession ==
    /\ ~s.registered
    /\ \E outcome \in OpenOutcomes :
          s' = [posix_open_outcome(s, outcome) EXCEPT
                   !.h_reclosed = IF outcome = "fails" THEN @ ELSE FALSE,
                   !.h_stale = IF outcome = "fails" THEN @ ELSE FALSE,
                   !.h_foreign_close = IF outcome = "fails" THEN @ ELSE FALSE]

\* close in any state, also before open and after close
CloseSession ==
    s' = [CancelRequests(btstack_uart_posix_close_new(s)) EXCEPT
             !.h_reclosed = @ \/ (s.fd = -1),
             !.h_wr_cancelled = @ \/ s.h_wr_pending]

\* the run loop dispatches an event it collected before the session was
\* closed; read() and write() on descriptor -1 fail
StaleEvent ==
    /\ s.fd < 0
    /\ \E callback_type \in {"READ", "WRITE"} :
          s' = [hci_uart_posix_process(s, callback_type, -1) EXCEPT !.h_stale = TRUE]

\* sessions opened, closed and reopened around block and frame requests
NextSession ==
    \/ OpenSession
    \/ CloseSession
    \/ StaleEvent
    \/ ReceiveBlock
    \/ ReceiveFrame
    \/ ReadReady
    \/ PeerSends

SpecSession == InitRx /\ [][NextSession]_vars

\* sessions opened, closed and reopened around frame sends
NextSessionTx ==
    \/ OpenSession
    \/ CloseSession
    \/ SendFrame
    \/ WriteReady
    \/ DeviceDrains

\* the peer keeps sending: one more byte when the device holds none
PeerFeeds ==
    /\ s.wire = <<>>
    /\ s' = [s EXCEPT !.wire = Append(@, 1)]

\* a read event whose read() returns a positive count
ReadPositive ==
    /\ s.registered /\ s.ds_read
    /\ \E result \in ReadResults(s, ReadCount(s)) :
          /\ result > 0
          /\ s' = hci_uart_posix_process(s, "READ", result)

\* a write event whose write() returns a positive count
WritePositive ==
    /\ s.registered /\ s.ds_write
    /\ \E result \in WriteResults(s, WriteCount(s)) :
          /\ result > 0
          /\ s' = [hci_uart_posix_process(s, "WRITE", result) EXCEPT !.h_wr_event = TRUE]

\* block requests on a session that stays open
NextLive ==
    \/ Open
    \/ SendBlock
    \/ ReceiveBlock
    \/ ReadReady
    \/ WriteReady
    \/ DeviceDrains
    \/ PeerFeeds

\* the run loop keeps delivering events for armed interests and the device
\* does not answer a repeated read or write with zero or an error for ever;
\* the peer keeps taking and sending bytes
Fairness ==
    /\ SF_vars(ReadPositive)
    /\ SF_vars(WritePositive)
    /\ WF_vars(DeviceDrains)
    /\ WF_vars(PeerFeeds)

SpecLive == InitRx /\ [][NextLive]_vars /\ Fairness

\* a build whose chunk buffer holds two bytes
InitSessionTx == Init /\ s.chunk_len = 2

SpecSessionTx == InitSessionTx /\ [][NextSessionTx]_vars

-----------------------------------------------------------------------------
(* Block writes *)

\* C1: a send_block written by partial writes that sum to its length gets
\* on_block_sent exactly once, with the last of them and never while bytes
\* remain, and write interest is disarmed when the callback is invoked.
C1_BlockSentOnce ==
    s.h_wr_kind = "block" =>
        /\ s.btstack_uart_block_write_bytes_len = s.h_wr_size - s.h_wr_total
        /\ s.h_wr_cb <= 1
        /\ s.h_wr_total < s.h_wr_size => s.h_wr_cb = 0 /\ s.h_wr_pending
        /\ (s.h_wr_size > 0 /\ s.h_wr_total = s.h_wr_size) => s.h_wr_cb = 1
        /\ s.h_wr_cb = 1 =>
              /\ s.h_wr_cb_name = "block_sent"
              /\ s.h_wr_total = s.h_wr_size
              /\ ~s.h_wr_cb_armed
              /\ ~s.h_wr_pending

\* a block of two bytes went out in two partial writes and was reported
C1_Witness ==
    /\ s.h_wr_kind = "block"
    /\ s.h_wr_size = 2
    /\ s.h_wr_partials = 2
    /\ s.h_wr_cb = 1

(* Block reads *)

\* C2: a receive_block gets on_block_received at most once and only when
\* the bytes read for it add up to its length, with the read that completes
\* it; read interest stays armed after a partial read and is disarmed when
\* the length is exhausted.
C2_BlockReceivedOnce ==
    s.h_rd_kind = "block" =>
        /\ s.btstack_uart_block_read_bytes_len = s.h_rd_size - s.h_rd_total
        /\ s.h_rd_cb <= 1
        /\ s.h_rd_total < s.h_rd_size => s.h_rd_cb = 0 /\ s.ds_read
        /\ (s.h_rd_size > 0 /\ s.h_rd_total = s.h_rd_size) => s.h_rd_cb = 1
        /\ s.h_rd_cb = 1 =>
              /\ s.h_rd_total = s.h_rd_size
              /\ ~s.h_rd_cb_armed
              /\ ~s.ds_read
              /\ ~s.h_rd_pending

\* a block of two bytes arrived in two reads of one byte and was reported
C2_Witness ==
    /\ s.h_rd_kind = "block"
    /\ s.h_rd_size = 2
    /\ s.h_phys_reads = 2
    /\ ~s.h_rd_err
    /\ s.h_rd_cb = 1

-----------------------------------------------------------------------------
(* Frame sends *)

\* the chunk being written goes out whole with this step
ChunkFinishes ==
    /\ s.h_wr_kind = "frame"
    /\ s.btstack_uart_slip_write_active = 1
    /\ s'.h_wr_total > s.h_wr_total
    /\ s'.h_wr_total - s.h_wr_total = s.btstack_uart_slip_write_bytes_len

C3_State ==
    s.h_wr_kind = "frame" =>
        /\ s.h_wr_cb <= 1
        /\ s.h_wr_cb = 0 => s.btstack_uart_slip_write_active = 1 /\ s.h_wr_pending
        /\ s.h_wr_total = Len(SlipStream(s.h_frame)) => s.h_wr_cb = 1
        /\ s.h_wr_cb = 1 =>
              /\ s.h_wr_cb_name = "frame_sent"
              /\ ~btstack_slip_encoder_has_data(s)
              /\ s.btstack_uart_slip_write_bytes_len = 0
              /\ s.h_wr_total = Len(SlipStream(s.h_frame))
              /\ s.btstack_uart_slip_write_active = 0

C3_Step ==
    (ChunkFinishes /\ btstack_slip_encoder_has_data(s)) =>
        /\ s'.h_chunks = s.h_chunks + 1
        /\ s'.btstack_uart_slip_write_bytes_len > 0
        /\ s'.ds_write
        /\ s'.h_wr_cb = 0
        /\ s'.btstack_uart_slip_write_active = 1

\* C3: a send_frame gets the frame-sent callback exactly once, and only
\* when the encoder has nothing pending and every chunk is written; a chunk
\* that finishes while the encoder has output pending is followed by the
\* next chunk, with no callback and the send still active.
C3_FrameSentOnce == []C3_State /\ [][C3_Step]_vars

\* a frame that took several chunks has been reported sent
C3_Witness ==
    /\ s.h_wr_kind = "frame"
    /\ s.h_chunks >= 2
    /\ s.h_wr_cb = 1

\* C7 as amended: send_frame([1, 2, 3]) with a chunk capacity of one byte
\* takes five chunk-sends, one per byte of the stream SOF 1 2 3 SOF, before
\* the frame-sent callback fires once.
C7_FiveChunks ==
    (s.chunk_len = 1 /\ s.h_wr_kind = "frame" /\ s.h_frame = <<1, 2, 3>>) =>
        /\ s.h_wr_cb <= 1
        /\ s.h_chunks <= 5
        /\ s.h_chunks < 5 => s.h_wr_cb = 0
        /\ s.h_wr_cb = 1 => s.h_chunks = 5

\* C7 as stated: three chunk-sends before the frame-sent callback
C7_ThreeChunks ==
    (s.chunk_len = 1 /\ s.h_wr_kind = "frame" /\ s.h_frame = <<1, 2, 3>>
        /\ s.h_wr_cb = 1) => s.h_chunks = 3

\* the frame [1, 2, 3] has been reported sent by a driver whose chunks
\* hold one byte
C7_Witness ==
    /\ s.chunk_len = 1
    /\ s.h_wr_kind = "frame"
    /\ s.h_frame = <<1, 2, 3>>
    /\ s.h_wr_cb = 1

(* Write errors *)

\* C9 as stated: after a write of zero bytes the send_block is abandoned:
\* on_block_sent is never invoked for it.
C9_ZeroWriteAbandons ==
    (s.h_wr_kind = "block" /\ s.h_wr_zero) => s.h_wr_cb = 0

\* a write-readiness event whose write() returns a negative result
NegativeWrite ==
    /\ s.registered /\ s.ds_write
    /\ WriteCount(s) > 0
    /\ s' = hci_uart_posix_process(s, "WRITE", -1)

C10_Step ==
    NegativeWrite =>
        /\ s'.btstack_uart_block_write_bytes_data = s.btstack_uart_block_write_bytes_data
        /\ s'.btstack_uart_block_write_bytes_len = s.btstack_uart_block_write_bytes_len
        /\ s'.btstack_uart_slip_write_bytes_data = s.btstack_uart_slip_write_bytes_data
        /\ s'.btstack_uart_slip_write_bytes_len = s.btstack_uart_slip_write_bytes_len
        /\ s'.ds_write
        /\ s'.h_wr_cb = s.h_wr_cb
        /\ s'.h_wr_pending = s.h_wr_pending
        /\ s'.wire = s.wire

C10_State ==
    s.h_wr_neg =>
        /\ s.h_wr_cb <= 1
        /\ (s.h_wr_kind = "block" /\ s.h_wr_total = s.h_wr_size) => s.h_wr_cb = 1
        /\ (s.h_wr_kind = "frame" /\ s.h_wr_total = Len(SlipStream(s.h_frame)))
              => s.h_wr_cb = 1

\* C10: a write (of a block or of a frame's chunk) that returns a negative
\* result leaves cursor and remaining length as they were and write interest
\* armed, and invokes no callback; once later writes have written the rest
\* the request has exactly one completion callback.
C10_NegativeWriteRetried == []C10_State /\ [][C10_Step]_vars

\* a request that saw a negative write has completed
C10_Witness ==
    /\ s.h_wr_neg
    /\ s.h_wr_kind = "frame"
    /\ s.h_wr_cb = 1

-----------------------------------------------------------------------------
(* Frame receives *)

\* frames with at least one byte
RealFrames == {f \in Frames : Len(f) >= 1}

\* the bytes of the scratch buffer not yet fed to the decoder
Unprocessed(st) ==
    SubSeq(st.btstack_uart_slip_receive_buffer,
           st.btstack_uart_slip_receive_pos + 1, st.btstack_uart_slip_receive_len)

\* one read hands the frame pipeline the streams of f1 and f2 and nothing
\* else, the decoder being between frames
ReadsTwoFrames(f1, f2) ==
    /\ ReadReady
    /\ s.btstack_uart_slip_receive_active = 1
    /\ s.decoder_state = "UNKNOWN"
    /\ s.wire = SlipStream(f1) \o SlipStream(f2)
    /\ s'.wire = <<>>

C4_Read ==
    \A f1, f2 \in RealFrames :
        ReadsTwoFrames(f1, f2) =>
            /\ s'.h_rd_cb = 1
            /\ s'.h_rx_size = Len(f1)
            /\ s'.decoder_buffer = f1
            /\ Unprocessed(s') = SlipStream(f2)

C4_NextCall ==
    \A f2 \in RealFrames :
        (ReceiveFrame /\ Unprocessed(s) = SlipStream(f2)) =>
            /\ s'.h_rd_cb = 1
            /\ s'.h_rx_size = Len(f2)
            /\ s'.decoder_buffer = f2
            /\ s'.h_phys_reads = 0
            /\ s'.wire = s.wire
            /\ Unprocessed(s') = <<>>

\* C4: when one physical read brings two complete frames, the receive_frame
\* that waited for the read gets frame 1 through the callback, and the next
\* receive_frame call gets frame 2 through the callback from the buffered
\* rest, with no physical read.
C4_TwoFramesOneRead == [][C4_Read /\ C4_NextCall]_vars

\* a second frame has been delivered by a receive_frame call that read
\* nothing from the device
C4_Witness ==
    /\ s.h_rd_kind = "frame"
    /\ s.h_rd_cb = 1
    /\ s.h_phys_reads = 0
    /\ s.h_rx_frames = 2
    /\ Len(s.decoder_buffer) = s.h_rx_size
    /\ s.h_rx_size >= 1

\* C5 as stated: a frame completed by a read-readiness event is delivered
\* with read interest disarmed, and read interest is not armed once the
\* event has been handled and no new request was issued.
C5_ReadDisarmedOnFrame ==
    (s.h_rd_kind = "frame" /\ s.h_rd_cb = 1 /\ s.h_phys_reads >= 1)
        => (~s.h_rd_cb_armed /\ ~s.ds_read)

(* Read errors *)

\* C8 as stated: after a read of zero bytes or a negative result the
\* receive_block is abandoned: on_block_received is never invoked for it.
C8_ReadErrorAbandons ==
    (s.h_rd_kind = "block" /\ s.h_rd_size >= 1 /\ s.h_rd_err) => s.h_rd_cb = 0

(* Round trip *)

\* every byte of the frame sent has been written, read and fed to the decoder
StreamConsumed ==
    /\ s.h_wr_kind = "frame"
    /\ s.h_wr_cb = 1
    /\ s.wire = <<>>
    /\ s.btstack_uart_slip_receive_len = 0

RoundTrip ==
    /\ s.h_rx_frames <= 1
    /\ s.h_rx_frames = 1 => s.h_rx_size = Len(s.h_frame)
    /\ (s.h_rd_kind = "frame" /\ s.h_rd_cb = 1) => s.decoder_buffer = s.h_frame
    /\ StreamConsumed => s.h_rx_frames = 1

\* C6 as amended: the byte stream of a frame of size F >= 1, read in parts
\* at any boundaries, makes receive_frame deliver exactly one frame, of
\* reported size F and with the bytes sent.
C6_RoundTripNonEmpty ==
    (s.h_wr_kind = "frame" /\ Len(s.h_frame) >= 1) => RoundTrip

\* C6 as stated: the same for every frame, the empty one included
C6_RoundTripAll ==
    s.h_wr_kind = "frame" => RoundTrip

\* a frame with escaped bytes came back whole from more than one read
C6_Witness ==
    /\ s.h_frame = <<192, 219>>
    /\ s.h_rx_frames = 1
    /\ s.h_rd_cb = 1
    /\ s.h_phys_reads >= 2
    /\ ~s.h_rd_err
    /\ s.decoder_buffer = <<192, 219>>

-----------------------------------------------------------------------------
(* Session: open, close, events after close *)

\* a registered descriptor is one the session has open
RegisteredIsLive(st) == st.registered => (st.fd = OpenFd /\ st.fd_open)

\* C11: in every reachable state, and after each statement of a close
\* called there, a descriptor registered with the run loop is an open
\* descriptor: close unregisters before it releases and invalidates
C11_RegisteredIsLive ==
    /\ RegisteredIsLive(s)
    /\ \A i \in 1 .. 3 : RegisteredIsLive(close_steps(s)[i])

\* a session closed while a read was armed
C11_Witness ==
    /\ s.fd = -1 /\ ~s.registered /\ ~s.fd_open
    /\ s.ds_read /\ s.h_rd_kind = "block"

\* C12: a readiness event dispatched while the descriptor is invalid
\* changes nothing: no read or write, no callback, no engine or pipeline
\* state, no interest flag
C12_StaleEventDiscarded ==
    s.fd < 0 =>
        \A callback_type \in {"READ", "WRITE"} :
            hci_uart_posix_process(s, callback_type, -1) = s

\* an event was dispatched after the close of a session receiving a frame
C12_Witness ==
    /\ s.h_stale /\ s.fd < 0
    /\ s.ds_read /\ s.btstack_uart_slip_receive_active # 0

\* C13: close on a closed session changes nothing: the descriptor stays
\* invalid and unregistered and no descriptor is released
C13_CloseIdempotent ==
    s.fd = -1 =>
        /\ ~s.registered
        /\ btstack_uart_posix_close_new(s) = s

\* close was called on a session already closed
C13_Witness == s.h_reclosed /\ s.fd = -1 /\ ~s.h_foreign_close

\* C14 as stated: at most one of block read outstanding and frame receive
\* active, at most one of block write outstanding and frame send active
C14_OneModePerDirection ==
    /\ ~(s.btstack_uart_block_read_bytes_len > 0
          /\ s.btstack_uart_slip_receive_active # 0)
    /\ ~(s.btstack_uart_block_write_bytes_len > 0
          /\ s.btstack_uart_slip_write_active # 0)

-----------------------------------------------------------------------------
(* Frame receive cursors *)

\* C15: after every receive_frame call and every read event the receive
\* cursors satisfy position <= length <= capacity of the scratch buffer,
\* and position = length only when both are zero
C15_CursorsInRange ==
    /\ s.btstack_uart_slip_receive_pos <= s.btstack_uart_slip_receive_len
    /\ s.btstack_uart_slip_receive_len <= SLIP_RECEIVE_BUFFER_SIZE
    /\ s.btstack_uart_slip_receive_pos = s.btstack_uart_slip_receive_len
           => s.btstack_uart_slip_receive_len = 0

\* a frame was delivered from a read that holds more bytes
C15_Witness ==
    /\ s.h_rx_frames >= 1
    /\ 0 < s.btstack_uart_slip_receive_pos
    /\ s.btstack_uart_slip_receive_pos < s.btstack_uart_slip_receive_len

-----------------------------------------------------------------------------
(* Outgoing chunk buffer *)

-----------------------------------------------------------------------------
(* receive_frame and the bytes of an earlier read *)

\* the decoder in state st completes a frame somewhere in bytes
RECURSIVE FrameWithin(_, _)
FrameWithin(st, bytes) ==
    IF bytes = <<>> THEN FALSE
    ELSE LET d == btstack_slip_decoder_process(st, Head(bytes))
         IN  \/ btstack_slip_decoder_frame_size(d) # 0
             \/ FrameWithin(d, Tail(bytes))

\* the bytes buffered from an earlier read hold a complete frame for a
\* decoder that starts afresh
DrainCompletes ==
    FrameWithin(btstack_slip_decoder_init(s, FrameBufferLen), Unprocessed(s))

C17_Call ==
    ReceiveFrame =>
        /\ s'.wire = s.wire
        /\ s'.h_phys_reads = 0
        /\ IF DrainCompletes
           THEN /\ s'.h_rd_cb = 1 /\ s'.h_rx_size > 0
                /\ ~s'.h_rd_pending
                /\ s'.ds_read = s.ds_read
           ELSE /\ s'.h_rd_cb = 0
                /\ s'.h_rd_pending
                /\ Unprocessed(s') = <<>>
                /\ s'.ds_read

\* C17: receive_frame feeds the bytes buffered from an earlier read to the
\* decoder first; if they complete a frame the frame-received callback runs
\* within the call and the call does not arm read interest; otherwise, and
\* when nothing is buffered, the call arms read interest
C17_DrainBeforeArm == [][C17_Call]_vars

\* a receive_frame call has delivered a frame from buffered bytes and left
\* read interest disarmed
C17_Witness ==
    /\ s.h_rd_kind = "frame" /\ s.h_rd_cb = 1 /\ s.h_phys_reads = 0
    /\ ~s.ds_read

-----------------------------------------------------------------------------
(* Chunks of a frame *)

\* C18: every chunk submitted for a frame holds between 1 and the chunk
\* capacity encoded bytes, every chunk but the last is full, and the chunks
\* in submission order are the encoder's output for the frame, each byte
\* once
C18_ChunksAreTheStream ==
    (s.h_wr_kind = "frame" /\ s.h_chunks >= 1) =>
        /\ 1 <= s.h_chunk_len /\ s.h_chunk_len <= s.chunk_len
        /\ Len(s.h_submitted) = (s.h_chunks - 1) * s.chunk_len + s.h_chunk_len
        /\ btstack_slip_encoder_has_data(s) => s.h_chunk_len = s.chunk_len
        /\ s.h_submitted = Take(SlipStream(s.h_frame), Len(s.h_submitted))
        /\ (s.h_wr_cb >= 1 \/ ~btstack_slip_encoder_has_data(s))
               => s.h_submitted = SlipStream(s.h_frame)

\* a frame of three bytes went out in chunks of 2, 2 and 1 bytes
C18_Witness ==
    /\ s.h_wr_kind = "frame" /\ s.h_wr_cb = 1
    /\ s.chunk_len = 2 /\ s.h_chunks = 3 /\ s.h_chunk_len = 1

-----------------------------------------------------------------------------
(* The scratch buffer between reads *)

\* C19: in frame mode a physical read into the scratch buffer happens only
\* when position and length are zero: no read has overwritten a byte not
\* yet fed to the decoder, and while frame receive is active the buffer
\* holds nothing
C19_ReadIntoEmptyBuffer ==
    /\ ~s.h_overwritten
    /\ s.btstack_uart_slip_receive_active # 0 =>
           /\ s.btstack_uart_slip_receive_pos = 0
           /\ s.btstack_uart_slip_receive_len = 0

\* a frame was completed by a read that followed a receive_frame call which
\* fed the rest of an earlier read to the decoder
C19_Witness ==
    /\ s.h_rd_kind = "frame" /\ s.h_drained
    /\ s.h_phys_reads >= 1 /\ ~s.h_rd_err
    /\ s.h_rd_cb = 1

-----------------------------------------------------------------------------
(* Bytes in arrival order *)

\* C20 as stated: every byte read from the device reaches the caller once
\* and in arrival order, so a block request never gets bytes from the
\* device while bytes read earlier wait in the scratch buffer
C20_ArrivalOrder ==
    ~ /\ s.h_rd_kind = "block" /\ s.h_rd_total > 0
      /\ Unprocessed(s) # <<>>

-----------------------------------------------------------------------------
(* Progress of block requests *)

SendBlockDone ==
    /\ s.h_wr_kind = "block" /\ s.h_wr_cb = 1
    /\ ~s.h_wr_pending /\ ~s.h_wr_cb_armed

ReceiveBlockDone ==
    /\ s.h_rd_kind = "block" /\ s.h_rd_cb = 1
    /\ ~s.h_rd_pending /\ ~s.h_rd_cb_armed

\* C21: on an open session, with events delivered for armed interests and
\* a device that eventually returns a positive count, every send_block and
\* every receive_block of at least one byte leads to its completion
\* callback, invoked with the interest of its direction disarmed
C21_BlockRequestsComplete ==
    /\ (s.h_wr_pending /\ s.h_wr_kind = "block" /\ s.h_wr_size >= 1)
           ~> SendBlockDone
    /\ (s.h_rd_pending /\ s.h_rd_kind = "block" /\ s.h_rd_size >= 1)
           ~> ReceiveBlockDone

\* a block of two bytes was sent after a write of zero bytes and a write
\* that failed, and a block was received after a read that failed
C21_Witness ==
    /\ SendBlockDone /\ s.h_wr_size >= 2
    /\ s.h_wr_zero /\ s.h_wr_neg
    /\ ReceiveBlockDone /\ s.h_rd_size >= 1 /\ s.h_rd_err

-----------------------------------------------------------------------------
(* A send of nothing *)

\* C22: a send_block of length 0 never completes: until another send is
\* issued write interest stays armed, nothing is written, on_block_sent is
\* not invoked, and a write event returns with the state unchanged
C22_ZeroLengthSendHangs ==
    (s.h_wr_pending /\ s.h_wr_kind = "block" /\ s.h_wr_size = 0) =>
        /\ s.ds_write
        /\ s.h_wr_cb = 0 /\ s.h_wr_total = 0
        /\ ~s.h_wr_zero /\ ~s.h_wr_neg
        /\ \A result \in WriteResults(s, WriteCount(s)) :
               hci_uart_posix_process(s, "WRITE", result) = s

\* a write event has been served for a send_block of length 0
C22_Witness ==
    /\ s.h_wr_pending /\ s.h_wr_kind = "block" /\ s.h_wr_size = 0
    /\ s.registered /\ s.h_wr_event

====
